---------------------------- MODULE Spec2Model ----------------------------
(***************************************************************************)
(* Lead capture site: the two lead submission endpoints, the phone         *)
(* verification proxy and the multi-step property form.                    *)
(*                                                                         *)
(* Strings whose characters matter (phone numbers) are sequences of        *)
(* one-character strings; every other string is a TLA+ string.  A JSON     *)
(* object is a function from the names of the fields it carries to their   *)
(* values, so a missing field is a name outside its DOMAIN.                *)
(***************************************************************************)
EXTENDS Integers, Sequences, FiniteSets, TLC

(***************************************************************************)
(* Bounds of the model.                                                    *)
(***************************************************************************)
\* longest notes history (in blocks) a CRM contact holds
MaxNotes == 2
\* requests the rate limiter lets through per client key and window
RateLimitMax == 1
\* blur validations of the form that may await the verification proxy at once
MaxBlurs == 1

\* longest run of arbitrary keys before the digits of a typed phone
MaxTyped == 3

(***************************************************************************)
(* Characters and the phone format.                                        *)
(***************************************************************************)
Digits == {"0", "1", "2", "3", "4", "5", "6", "7", "8", "9"}

IsDigit(c) == c \in Digits

\* value.replace(/\D/g, '')
StripNonDigits(s) == SelectSeq(s, IsDigit)

\* /^\(\d{3}\) \d{3}-\d{4}$/.test(s)
PhoneRegex(s) ==
    /\ Len(s) = 14
    /\ s[1] = "("
    /\ \A i \in 2..4 : IsDigit(s[i])
    /\ s[5] = ")"
    /\ s[6] = " "
    /\ \A i \in 7..9 : IsDigit(s[i])
    /\ s[10] = "-"
    /\ \A i \in 11..14 : IsDigit(s[i])

\* phone.slice(a, b) on a 0-based string, as a 1-based sequence
Slice(s, a, b) ==
    LET hi == IF b < Len(s) THEN b ELSE Len(s)
    IN  IF a >= hi THEN <<>> ELSE SubSeq(s, a + 1, hi)

\* formatPhoneNumber keeping every digit after the sixth
formatPhoneNumberNoCut(value) ==
    LET phone == StripNonDigits(value)
    IN  IF Len(phone) < 4 THEN phone
        ELSE IF Len(phone) < 7
        THEN <<"(">> \o SubSeq(phone, 1, 3) \o <<")", " ">> \o SubSeq(phone, 4, Len(phone))
        ELSE <<"(">> \o SubSeq(phone, 1, 3) \o <<")", " ">> \o SubSeq(phone, 4, 6)
                 \o <<"-">> \o SubSeq(phone, 7, Len(phone))

\* formatPhoneNumber putting the country code before a full number
formatPhoneNumberPlusOne(value) ==
    LET phone == StripNonDigits(value)
    IN  IF Len(phone) < 4 THEN phone
        ELSE IF Len(phone) < 7
        THEN <<"(">> \o SubSeq(phone, 1, 3) \o <<")", " ">> \o SubSeq(phone, 4, Len(phone))
        ELSE <<"+", "1", " ", "(">> \o SubSeq(phone, 1, 3) \o <<")", " ">> \o SubSeq(phone, 4, 6)
                 \o <<"-">> \o SubSeq(phone, 7, IF Len(phone) < 10 THEN Len(phone) ELSE 10)

formatPhoneNumber(value) ==
    LET phone == StripNonDigits(value)
    IN  IF Len(phone) < 4 THEN phone
        ELSE IF Len(phone) < 7
             THEN <<"(">> \o Slice(phone, 0, 3) \o <<")", " ">> \o Slice(phone, 3, Len(phone))
             ELSE <<"(">> \o Slice(phone, 0, 3) \o <<")", " ">> \o Slice(phone, 3, 6)
                  \o <<"-">> \o Slice(phone, 6, 10)

\* sample phone strings
PhoneA == <<"(", "5", "5", "5", ")", " ", "1", "2", "3", "-", "4", "5", "6", "7">>
PhoneADigits == <<"5", "5", "5", "1", "2", "3", "4", "5", "6", "7">>
PhoneB == <<"(", "5", "5", "5", ")", " ", "9", "8", "7", "-", "6", "5", "4", "3">>
PhoneBDigits == <<"5", "5", "5", "9", "8", "7", "6", "5", "4", "3">>
PhoneShort == <<"(", "5", "5", "5", ")", " ", "1", "2", "3", "-", "4", "5", "6">>
PhoneLong == PhoneA \o <<"8">>
EmptyStr == <<>>

(***************************************************************************)
(* JavaScript values that cross the wire as JSON.                          *)
(***************************************************************************)
Has(obj, f) == f \in DOMAIN obj

\* !obj[f] for a string-valued field: missing, or the empty string
FalsyStr(obj, f) == ~Has(obj, f) \/ obj[f] = ""

\* !obj[f] for a field held as a character sequence
FalsySeq(obj, f) == ~Has(obj, f) \/ obj[f] = <<>>

\* a JSON boolean or an absent one: "true", "false", "undefined"
JsBool(b) == IF b THEN "true" ELSE "false"

Truthy(v) == v \notin {"false", "undefined", "null", ""}

\* a && b
JsAnd(a, b) == IF Truthy(a) THEN b ELSE a

(***************************************************************************)
(* State.                                                                  *)
(***************************************************************************)
VARIABLES
    env,        \* process.env of the server: which credentials are configured
    rlCount,    \* rate limiter: requests counted per client key in the window
    crm,        \* the CRM: per phone, whether a contact exists and its notes
    last,       \* the request last handled by the server and what it caused
    step,                 \* PropertyForm: useState(1)
    formState,            \* the form context's lead record
    isSubmitting,
    errors,               \* FormErrors; "" is undefined
    touched,
    isPhoneValidating,
    isPhoneApiValidated,
    navigated,            \* router.push('/property-listed') was called
    blurs,                \* blur validations awaiting /api/validate-phone
    sub,                  \* the submit handler in progress
    ev                    \* the handler step last taken and what it observed

apiVars == <<env, rlCount, crm, last>>

formVars == <<step, formState, isSubmitting, errors, touched, isPhoneValidating,
              isPhoneApiValidated, navigated, blurs, sub, ev>>

vars == <<apiVars, formVars>>

(***************************************************************************)
(* Rate limiter: check(clientKey) -> {success, retryAfter?}.  A fixed      *)
(* window cap per key.                                                     *)
(***************************************************************************)
RateLimitWindow == 60

ClientKeys == {"unknown", "203.0.113.7"}

\* headersList.get('x-forwarded-for') || 'unknown'
ClientKey(forwardedFor) == IF forwardedFor = "" THEN "unknown" ELSE forwardedFor

rateLimit(count) ==
    IF count < RateLimitMax
    THEN [success |-> TRUE]
    ELSE [success |-> FALSE, retryAfter |-> RateLimitWindow]

rateLimitCount(count) == IF count < RateLimitMax THEN count + 1 ELSE count

(***************************************************************************)
(* The CRM, seen through its HTTP interface.  A call ends in one of        *)
(*   "ok"     a success response,                                          *)
(*   "notok"  a non-success response (response.ok is false),               *)
(*   "throw"  a transport failure (fetch rejects).                         *)
(***************************************************************************)
FetchOutcomes == {"ok", "notok", "throw"}

NoContact == [exists |-> FALSE, notes |-> <<>>]

CrmRequest(method, path, phone, notes) ==
    [method |-> method, path |-> path, phone |-> phone, notes |-> notes]

\* the store after the write requests of one handler run; a create for a
\* phone that has a contact leaves the looked-up contact (contacts[0]) as is
CrmApply(store, reqs, writeOutcome) ==
    LET writes == SelectSeq(reqs, LAMBDA r : r.method \in {"POST", "PUT"})
    IN  IF writes = <<>> \/ writeOutcome # "ok" THEN store
        ELSE LET w == writes[1]
             IN  IF w.method = "PUT"
                 THEN [store EXCEPT ![w.phone] = [exists |-> TRUE, notes |-> w.notes]]
                 ELSE IF store[w.phone].exists THEN store
                      ELSE [store EXCEPT ![w.phone] = [exists |-> TRUE, notes |-> w.notes]]

\* a failure of the CRM call that is taken for its return
ThrownSwallowed(msg, reqs) == [threw |-> FALSE, message |-> "", reqs |-> reqs]

\* sendToGoHighLevel throws, or returns, after the requests it made
Thrown(msg, reqs) == [threw |-> TRUE, message |-> msg, reqs |-> reqs]
Returned(reqs) == [threw |-> FALSE, message |-> "", reqs |-> reqs]

CredsConfigured == env.ghlKey /\ env.ghlLocation

(***************************************************************************)
(* POST /api/submit-partial                                                *)
(***************************************************************************)
\* validatePartialData without the phone format test
validatePartialDataNoFormat(data) ==
    /\ data.kind = "object"
    /\ ~(FalsyStr(data.f, "address") \/ FalsySeq(data.f, "phone"))

validatePartialData(data) ==
    IF data.kind # "object" THEN FALSE
    ELSE IF FalsyStr(data.f, "address") \/ FalsySeq(data.f, "phone") THEN FALSE
    ELSE IF ~PhoneRegex(data.f.phone) THEN FALSE
    ELSE TRUE

\* sendToGoHighLevel sending the create a second time when it is refused
sendToGoHighLevelPartialRetry(data, outcome) ==
    IF ~CredsConfigured
    THEN Thrown("Go High Level API credentials not configured", <<>>)
    ELSE LET phone == IF FalsySeq(data.f, "phone") THEN <<>> ELSE StripNonDigits(data.f.phone)
             reqs == <<CrmRequest("POST", "contacts/", phone, <<"Initial">>)>>
         IN  CASE outcome = "throw" -> Thrown("fetch failed", reqs)
               [] outcome = "notok" -> Thrown("Failed to send to Go High Level", reqs \o reqs)
               [] OTHER -> Returned(reqs)

\* sendToGoHighLevel of the partial route: one create, no lookup
sendToGoHighLevelPartial(data, outcome) ==
    IF ~CredsConfigured
    THEN Thrown("Go High Level API credentials not configured", <<>>)
    ELSE LET phone == IF FalsySeq(data.f, "phone") THEN <<>> ELSE StripNonDigits(data.f.phone)
             reqs == <<CrmRequest("POST", "contacts/", phone, <<"Initial">>)>>
         IN  CASE outcome = "throw" -> Thrown("fetch failed", reqs)
               [] outcome = "notok" -> Thrown("Failed to send to Go High Level", reqs)
               [] OTHER -> Returned(reqs)

Response(status, body, steps, reqs) ==
    [status |-> status, body |-> body, steps |-> steps, crmReqs |-> reqs]

\* the handler past the rate limit check: parse, validate, send
PartialPOSTBody(req, leadId, outcome) ==
    IF ~req.json \/ req.data.kind = "null"
    THEN Response(400, [error |-> "Invalid JSON in request body"],
                  <<"rateLimit", "parse">>, <<>>)
    ELSE IF ~validatePartialData(req.data)
    THEN Response(400, [error |-> "Invalid partial form data - Missing required fields or invalid format"],
                  <<"rateLimit", "parse", "validate">>, <<>>)
    ELSE LET sent == sendToGoHighLevelPartial(req.data, outcome)
         IN  IF sent.threw
             THEN Response(500, [error |-> sent.message],
                           <<"rateLimit", "parse", "validate", "send">>, sent.reqs)
             ELSE Response(200, [success |-> TRUE, leadId |-> leadId],
                           <<"rateLimit", "parse", "validate", "send">>, sent.reqs)

\* the handler going on to the payload whatever the rate limiter answered
PartialPOSTNoLimit(rl, req, leadId, outcome) == PartialPOSTBody(req, leadId, outcome)

\* the handler: rl is the rate limiter's answer, req the request, leadId the
\* identifier generated for this request, outcome the CRM call's outcome
PartialPOST(rl, req, leadId, outcome) ==
    IF ~rl.success
    THEN Response(429, [error |-> "Too many requests", retryAfter |-> rl.retryAfter],
                  <<"rateLimit">>, <<>>)
    ELSE PartialPOSTBody(req, leadId, outcome)

(***************************************************************************)
(* POST /api/submit-complete                                               *)
(***************************************************************************)
requiredFields ==
    <<"address", "phone", "firstName", "lastName", "email",
      "propertyCondition", "timeframe", "price", "leadId">>

\* !data[field]
FieldFalsy(obj, field) ==
    IF field = "phone" THEN FalsySeq(obj, field) ELSE FalsyStr(obj, field)

\* the fields of requiredFields that fail the test, in the order of the loop
MissingFields(obj) == SelectSeq(requiredFields, LAMBDA fld : FieldFalsy(obj, fld))

\* validateFormData: it returns true or throws, and never returns false
validateFormData(data) ==
    IF data.kind # "object" THEN [threw |-> TRUE, message |-> "Invalid data format"]
    ELSE IF MissingFields(data.f) # <<>>
    THEN [threw |-> TRUE, message |-> Head(MissingFields(data.f)) \o " is required"]
    ELSE IF ~PhoneRegex(data.f.phone)
    THEN [threw |-> TRUE, message |-> "Invalid phone number format"]
    ELSE [threw |-> FALSE, message |-> ""]

\* the notes written by an update when the fetch of the contact's details
\* came back: the existing notes, then the new block
AppendedNotes(getOutcome, existing, notes) ==
    IF getOutcome = "ok" /\ existing # <<>> THEN existing \o notes ELSE notes

\* the lookup taken to find nothing
ContactFoundNever(store, phone, lookup) == FALSE

\* searchResponse.ok && searchResult.contacts && searchResult.contacts.length > 0
ContactFound(store, phone, lookup) ==
    lookup = "ok" /\ phone \in DOMAIN store /\ store[phone].exists

\* sendToGoHighLevel of the complete route: lookup by phone, then update the
\* contact found or create one.  out.lookup, out.get and out.write are the
\* outcomes of the three calls; store is the CRM the lookup reads.
sendToGoHighLevelComplete(data, store, out) ==
    IF ~CredsConfigured
    THEN Thrown("Go High Level API credentials not configured", <<>>)
    ELSE
    LET phone == StripNonDigits(data.f.phone)
        notes == <<"Complete">>
        lookup == <<CrmRequest("GET", "contacts/lookup", phone, <<>>)>>
        finish(reqs) ==
            CASE out.write = "throw" -> Thrown("fetch failed", reqs)
              [] out.write = "notok" -> Thrown("Failed to send to Go High Level", reqs)
              [] OTHER -> Returned(reqs)
    IN  IF out.lookup = "throw" THEN Thrown("fetch failed", lookup)
        ELSE IF out.lookup = "ok"
        THEN IF ContactFound(store, phone, out.lookup)
             THEN LET get == lookup \o <<CrmRequest("GET", "contacts/id", phone, <<>>)>>
                  IN  IF out.get = "throw" THEN Thrown("fetch failed", get)
                      ELSE finish(get \o <<CrmRequest("PUT", "contacts/id", phone,
                                       AppendedNotes(out.get, store[phone].notes, notes))>>)
             ELSE finish(lookup \o <<CrmRequest("POST", "contacts/", phone, notes)>>)
        ELSE finish(lookup \o <<CrmRequest("POST", "contacts/", phone, notes)>>)

\* the handler past the rate limit check
CompletePOSTBody(req, store, out) ==
    IF ~req.json \/ req.data.kind = "null"
    THEN Response(400, [error |-> "Invalid JSON in request body"],
                  <<"rateLimit", "parse">>, <<>>)
    ELSE LET valid == validateFormData(req.data)
         IN  IF valid.threw
             THEN Response(500, [error |-> valid.message],
                           <<"rateLimit", "parse", "validate">>, <<>>)
             ELSE LET sent == sendToGoHighLevelComplete(req.data, store, out)
                  IN  IF sent.threw
                      THEN Response(500, [error |-> sent.message],
                                    <<"rateLimit", "parse", "validate", "send">>, sent.reqs)
                      ELSE Response(200, [success |-> TRUE, leadId |-> req.data.f.leadId],
                                    <<"rateLimit", "parse", "validate", "send">>, sent.reqs)

CompletePOST(rl, req, store, out) ==
    IF ~rl.success
    THEN Response(429, [error |-> "Too many requests", retryAfter |-> rl.retryAfter],
                  <<"rateLimit">>, <<>>)
    ELSE CompletePOSTBody(req, store, out)

(***************************************************************************)
(* POST /api/validate-phone                                                *)
(***************************************************************************)
\* the message for a provider answer with success === false
ProviderErrorMessage(data) ==
    IF Has(data, "error") /\ Has(data.error, "info") /\ data.error.info # ""
    THEN data.error.info
    ELSE IF Has(data, "error") /\ Has(data.error, "type") /\ data.error.type # ""
    THEN CASE data.error.type \in {"no_phone_number_provided", "non_numeric_phone_number_provided"}
                -> "Invalid phone number format provided."
           [] data.error.type = "invalid_country_code"
                -> "Invalid country code for the phone number."
           [] OTHER -> "Could not validate phone number at this time."
    ELSE "Phone number validation failed."

Field(obj, f) == IF Has(obj, f) THEN obj[f] ELSE "undefined"

\* the lead test that accepts every valid number
isValidLeadAnyLine(data) == Field(data, "valid")

\* data.valid && (data.line_type === 'mobile' || data.line_type === 'landline')
isValidLead(data) ==
    JsAnd(Field(data, "valid"),
          JsBool(Field(data, "line_type") = "mobile" \/ Field(data, "line_type") = "landline"))

\* a key that is taken to be there
NumverifyConfiguredAnyway == TRUE

\* process.env.NUMVERIFY_API_KEY is set
NumverifyConfigured == env.numverifyKey

\* body is the request's JSON, provider the outcome of the external lookup:
\* [kind |-> "throw"] or [kind |-> "data", data |-> the provider's JSON]
ValidatePhonePOST(body, provider) ==
    IF FalsySeq(body, "phoneNumber")
    THEN Response(400, [error |-> "Phone number is required"], <<"parse">>, <<>>)
    ELSE
    LET phoneNumber == IF Head(body.phoneNumber) # "1"
                       THEN <<"1">> \o body.phoneNumber ELSE body.phoneNumber
    IN  IF ~NumverifyConfigured
        THEN Response(500, [error |-> "Server configuration error"], <<"parse", "config">>, <<>>)
        ELSE IF provider.kind = "throw"
        THEN Response(500, [error |-> "Failed to validate phone number due to a network or server error."],
                      <<"parse", "config", "lookup">>, <<phoneNumber>>)
        ELSE IF Field(provider.data, "success") = "false"
        THEN Response(400, [error |-> ProviderErrorMessage(provider.data)],
                      <<"parse", "config", "lookup">>, <<phoneNumber>>)
        ELSE Response(200,
                      [isValid |-> Field(provider.data, "valid"),
                       lineType |-> Field(provider.data, "line_type"),
                       carrier |-> Field(provider.data, "carrier"),
                       isValidLead |-> isValidLead(provider.data)],
                      <<"parse", "config", "lookup">>, <<phoneNumber>>)

(***************************************************************************)
(* Inputs.                                                                 *)
(***************************************************************************)
Address == "123 Main St"

LeadIds == {"lead_1", "lead_2"}

PartialValid == [address |-> Address, phone |-> PhoneA, consent |-> TRUE]

PartialObjects ==
    {PartialValid, [address |-> Address, phone |-> PhoneA, consent |-> FALSE],
     [address |-> Address, phone |-> PhoneA],
     [phone |-> PhoneA, consent |-> TRUE],
     [address |-> "", phone |-> PhoneA, consent |-> TRUE],
     [address |-> Address, consent |-> TRUE],
     [consent |-> FALSE]}
    \cup {[PartialValid EXCEPT !.phone = p] : p \in {EmptyStr, PhoneADigits, PhoneShort, PhoneLong}}

NoObject == [n \in {} |-> ""]

PartialRequests ==
    {[json |-> TRUE, data |-> [kind |-> "object", f |-> o]] : o \in PartialObjects}
    \cup {[json |-> TRUE, data |-> [kind |-> k, f |-> NoObject]] : k \in {"null", "other"}}
    \cup {[json |-> FALSE, data |-> [kind |-> "other", f |-> NoObject]]}

CompleteValid ==
    [address |-> Address, phone |-> PhoneA, firstName |-> "Ada", lastName |-> "Lee",
     email |-> "ada@example.com", propertyCondition |-> "good", timeframe |-> "asap",
     price |-> "250000", leadId |-> "lead_1"]

Without(obj, field) == [n \in DOMAIN obj \ {field} |-> obj[n]]

Emptied(obj, field) ==
    [n \in DOMAIN obj |-> IF n # field THEN obj[n]
                          ELSE IF field = "phone" THEN EmptyStr ELSE ""]

CompleteObjects ==
    {CompleteValid}
    \cup {Without(CompleteValid, requiredFields[i]) : i \in 1..Len(requiredFields)}
    \cup {Emptied(CompleteValid, requiredFields[i]) : i \in 1..Len(requiredFields)}
    \cup {[CompleteValid EXCEPT !.phone = PhoneADigits]}
    \cup {Without(Without(CompleteValid, "email"), "leadId")}

CompleteRequests ==
    {[json |-> TRUE, data |-> [kind |-> "object", f |-> o]] : o \in CompleteObjects}
    \cup {[json |-> TRUE, data |-> [kind |-> k, f |-> NoObject]] : k \in {"null", "other"}}
    \cup {[json |-> FALSE, data |-> [kind |-> "other", f |-> NoObject]]}

ValidateBodies ==
    {NoObject, [phoneNumber |-> EmptyStr], [phoneNumber |-> PhoneADigits],
     [phoneNumber |-> <<"1">> \o PhoneADigits]}

LineTypes == {"mobile", "landline", "voip", "special_services", "null"}

ProviderAnswers ==
    {[valid |-> v, line_type |-> t, carrier |-> "Carrier"] : v \in {"true", "false"}, t \in LineTypes}
    \cup {[line_type |-> "mobile"]}
    \cup {[success |-> "false", error |-> e] :
            e \in {[info |-> "Invalid number"], [type |-> "no_phone_number_provided"],
                   [type |-> "invalid_country_code"], [type |-> "rate_limit"]}}
    \cup {[success |-> "false"]}

ProviderOutcomes ==
    {[kind |-> "throw", data |-> NoObject]} \cup {[kind |-> "data", data |-> d] : d \in ProviderAnswers}

HasRequest(reqs, methods, path) ==
    \E i \in 1..Len(reqs) : reqs[i].method \in methods /\ reqs[i].path = path

\* the outcomes to draw for a call: all of them when the handler makes the
\* call, and none to choose from when it does not
OutcomesIf(made) == IF made THEN FetchOutcomes ELSE {"ok"}

Script(lookup, get, write) == [lookup |-> lookup, get |-> get, write |-> write]

NotesBounded(store) == \A ph \in DOMAIN store : Len(store[ph].notes) <= MaxNotes

(***************************************************************************)
(* The server: one action per request handled.                             *)
(***************************************************************************)
Idle == [endpoint |-> "none"]

\* the endpoints read disjoint credentials: the CRM's by the two submission
\* routes, the verification provider's by validate-phone
EnvConfigs ==
    {[ghlKey |-> TRUE, ghlLocation |-> TRUE, numverifyKey |-> TRUE],
     [ghlKey |-> FALSE, ghlLocation |-> TRUE, numverifyKey |-> TRUE],
     [ghlKey |-> TRUE, ghlLocation |-> FALSE, numverifyKey |-> FALSE]}

PartialRequest(fwd, req) ==
    LET key == ClientKey(fwd)
        rl == rateLimit(rlCount[key])
        probe == PartialPOST(rl, req, "lead_1", "ok")
    IN  \E outcome \in OutcomesIf(probe.crmReqs # <<>>) :
        \E leadId \in IF probe.status = 200 /\ outcome = "ok" THEN LeadIds ELSE {"lead_1"} :
        LET resp == PartialPOST(rl, req, leadId, outcome)
        IN  /\ rlCount' = [rlCount EXCEPT ![key] = rateLimitCount(@)]
            /\ crm' = CrmApply(crm, resp.crmReqs, outcome)
            /\ last' = [endpoint |-> "submit-partial", key |-> key, limited |-> ~rl.success, req |-> req,
                        out |-> Script("ok", "ok", outcome), resp |-> resp]
            /\ UNCHANGED <<env, formVars>>

CompleteRequest(fwd, req) ==
    LET key == ClientKey(fwd)
        rl == rateLimit(rlCount[key])
        probe == CompletePOST(rl, req, crm, Script("ok", "ok", "ok"))
    IN  \E lookup \in OutcomesIf(probe.crmReqs # <<>>) :
        \E get \in OutcomesIf(lookup = "ok" /\ HasRequest(probe.crmReqs, {"GET"}, "contacts/id")) :
        \E write \in OutcomesIf(lookup # "throw" /\ get # "throw" /\ probe.crmReqs # <<>>) :
        LET out == Script(lookup, get, write)
            resp == CompletePOST(rl, req, crm, out)
        IN  /\ NotesBounded(CrmApply(crm, resp.crmReqs, write))
            /\ rlCount' = [rlCount EXCEPT ![key] = rateLimitCount(@)]
            /\ crm' = CrmApply(crm, resp.crmReqs, write)
            /\ last' = [endpoint |-> "submit-complete", key |-> key, limited |-> ~rl.success, req |-> req,
                        out |-> out, pre |-> crm, resp |-> resp]
            /\ UNCHANGED <<env, formVars>>

ValidatePhoneRequest(body) ==
    LET probe == ValidatePhonePOST(body, [kind |-> "throw", data |-> NoObject])
    IN  \E provider \in IF probe.crmReqs # <<>> THEN ProviderOutcomes
                        ELSE {[kind |-> "throw", data |-> NoObject]} :
        /\ last' = [endpoint |-> "validate-phone", body |-> body, provider |-> provider,
                    resp |-> ValidatePhonePOST(body, provider)]
        /\ UNCHANGED <<env, rlCount, crm, formVars>>

\* the rate limiter's window elapses
WindowElapse ==
    /\ \E k \in ClientKeys : rlCount[k] > 0
    /\ rlCount' = [k \in ClientKeys |-> 0]
    /\ UNCHANGED <<env, crm, last, formVars>>

ApiNext ==
    \/ \E fwd \in {"", "203.0.113.7"}, req \in PartialRequests : PartialRequest(fwd, req)
    \/ \E fwd \in {"", "203.0.113.7"}, req \in CompleteRequests : CompleteRequest(fwd, req)
    \/ \E body \in ValidateBodies : ValidatePhoneRequest(body)
    \/ WindowElapse

(***************************************************************************)
(* PropertyForm.  A handler reads the state of the render it was created   *)
(* in; a functional update (setErrors(prev => ...)) applies to the state   *)
(* as it is when the update runs, a plain one (setErrors(newErrors))       *)
(* replaces it.  An await of a network call ends a step: other events may  *)
(* be handled before the response arrives.                                 *)
(***************************************************************************)
NoErrors == [address |-> "", phone |-> "", consent |-> "", submit |-> "", phoneApi |-> ""]

EmptyForm ==
    [address |-> "", phone |-> EmptyStr, consent |-> FALSE, leadId |-> "",
     carrier |-> "", phoneLineType |-> ""]

NoSubmit ==
    [pc |-> "idle", snap |-> EmptyForm, conversion |-> FALSE,
     isValid |-> "undefined", isValidLead |-> "undefined"]

NoEvent == [type |-> "none"]

\* a format check that lets every value through
validatePhoneFormatLax(phone) == TRUE

validatePhoneFormat(phone) == PhoneRegex(phone)

\* address?.trim(): the sample addresses carry no outer blanks
Trim(address) == address

\* || on two strings
Or(a, b) == IF a # "" THEN a ELSE b

\* a submit button that stays enabled while a submission is in flight
SubmitDisabledNotBusy ==
    \/ isPhoneValidating
    \/ errors.phoneApi # ""
    \/ errors.phone # ""
    \/ errors.address # ""
    \/ errors.consent # ""

\* the submit button's disabled attribute
SubmitDisabled ==
    \/ isSubmitting
    \/ isPhoneValidating
    \/ errors.phoneApi # ""
    \/ errors.phone # ""
    \/ errors.address # ""
    \/ errors.consent # ""

\* the button's onClick: whether the conversion is tracked
ConversionTracked ==
    /\ formState.phone # EmptyStr
    /\ formState.consent
    /\ errors.phone = ""
    /\ errors.phoneApi = ""
    /\ ~isSubmitting
    /\ ~isPhoneValidating

\* the answer to fetch('/api/validate-phone'): net is "throw" when the call to
\* the route itself fails, and else the outcome of the provider's lookup
VerifyResponse(phone, net) ==
    IF net.kind = "clientThrow" THEN [kind |-> "throw"]
    ELSE LET r == ValidatePhonePOST([phoneNumber |-> StripNonDigits(phone)], net)
         IN  [kind |-> "http", status |-> r.status, body |-> r.body]

\* validateNumverify taking any answer for a verification
validateNumverifyEndLax(response) ==
    [ret |-> TRUE, phoneApi |-> "", carrier |-> "", phoneLineType |-> ""]

\* validateNumverify from the answer of the call on: what it returns, the
\* phoneApi error it leaves, and the enrichment it stores when it returns true
validateNumverifyEnd(response) ==
    LET fail(msg) == [ret |-> FALSE, phoneApi |-> msg, carrier |-> "", phoneLineType |-> ""]
    IN  IF response.kind = "throw"
        THEN fail("Could not validate phone number. Check connection.")
        ELSE IF response.status # 200
        THEN fail(Or(Field(response.body, "error"), "Phone validation service failed."))
        ELSE IF ~Truthy(response.body.isValid)
        THEN fail("This phone number appears to be invalid.")
        ELSE IF ~Truthy(response.body.isValidLead)
        THEN fail("Please provide a personal mobile or landline number. Business numbers are not accepted.")
        ELSE [ret |-> TRUE, phoneApi |-> "", carrier |-> response.body.carrier,
              phoneLineType |-> response.body.lineType]

\* an enrichment that empties the phone after a verification that failed
EnrichedOrCleared(fs, r) ==
    IF r.ret THEN [fs EXCEPT !.carrier = r.carrier, !.phoneLineType = r.phoneLineType]
    ELSE [fs EXCEPT !.phone = EmptyStr]

\* updateFormData({carrier, phoneLineType}) after a verification that passed
Enriched(fs, r) ==
    IF r.ret THEN [fs EXCEPT !.carrier = r.carrier, !.phoneLineType = r.phoneLineType] ELSE fs

\* what the step observed of a verification that ended
Verified(caller, net, response, r) ==
    [type |-> "verified", caller |-> caller, net |-> net.kind,
     status |-> IF response.kind = "http" THEN response.status ELSE 0,
     isValid |-> IF response.kind = "http" THEN Field(response.body, "isValid") ELSE "undefined",
     isValidLead |-> IF response.kind = "http" THEN Field(response.body, "isValidLead")
                     ELSE "undefined",
     ret |-> r.ret, phoneApi |-> r.phoneApi, posted |-> FALSE]

FormInit ==
    /\ step = 1
    /\ formState = EmptyForm
    /\ isSubmitting = FALSE
    /\ errors = NoErrors
    /\ touched = [address |-> FALSE, phone |-> FALSE, consent |-> FALSE]
    /\ isPhoneValidating = FALSE
    /\ isPhoneApiValidated = FALSE
    /\ navigated = FALSE
    /\ blurs = <<>>
    /\ sub = NoSubmit
    /\ ev = NoEvent

handleAddressSelect(address) ==
    /\ step = 1 /\ ~navigated
    /\ formState' = [formState EXCEPT !.address = address]
    /\ errors' = [errors EXCEPT !.address = ""]
    /\ touched' = [touched EXCEPT !.address = TRUE]
    /\ step' = 2
    /\ ev' = NoEvent
    /\ UNCHANGED <<apiVars, isSubmitting, isPhoneValidating, isPhoneApiValidated, navigated, blurs, sub>>

handlePhoneChange(value) ==
    LET formatted == formatPhoneNumber(value)
    IN  /\ step = 2 /\ ~navigated
        /\ formState' = [formState EXCEPT !.phone = formatted]
        /\ isPhoneApiValidated' = FALSE
        /\ errors' = IF touched.phone
                     THEN [errors EXCEPT !.phone =
                              IF ~validatePhoneFormat(formatted)
                              THEN "Please enter a valid phone number format (XXX) XXX-XXXX"
                              ELSE ""]
                     ELSE [errors EXCEPT !.phoneApi = ""]
        /\ ev' = NoEvent
        /\ UNCHANGED <<apiVars, step, isSubmitting, touched, isPhoneValidating, navigated, blurs, sub>>

handleConsentChange(checked) ==
    /\ step = 2 /\ ~navigated
    /\ formState' = [formState EXCEPT !.consent = checked]
    /\ ev' = NoEvent
    /\ UNCHANGED <<apiVars, step, isSubmitting, errors, touched, isPhoneValidating,
                   isPhoneApiValidated, navigated, blurs, sub>>

\* a blur of the consent that sends the form back to the address step
handleBlurConsentBack ==
    /\ step = 2 /\ ~navigated
    /\ step' = 1
    /\ touched' = [touched EXCEPT !.consent = TRUE]
    /\ errors' = [errors EXCEPT !.consent =
                     IF ~formState.consent THEN "You must consent to be contacted" ELSE ""]
    /\ ev' = NoEvent
    /\ UNCHANGED <<apiVars, formState, isSubmitting, isPhoneValidating, isPhoneApiValidated,
                   navigated, blurs, sub>>

\* handleBlur('consent'): validateForm('consent') runs to its end
handleBlurConsent ==
    /\ step = 2 /\ ~navigated
    /\ touched' = [touched EXCEPT !.consent = TRUE]
    /\ errors' = [errors EXCEPT !.consent =
                     IF ~formState.consent THEN "You must consent to be contacted" ELSE ""]
    /\ ev' = NoEvent
    /\ UNCHANGED <<apiVars, step, formState, isSubmitting, isPhoneValidating, isPhoneApiValidated,
                   navigated, blurs, sub>>

\* handleBlur('phone'): validateForm('phone') up to its end, or up to the
\* await of validateNumverify's call
handleBlurPhone ==
    LET currentPhone == formState.phone
        newErrors == [errors EXCEPT !.phone = ""]
    IN  /\ step = 2 /\ ~navigated
        /\ touched' = [touched EXCEPT !.phone = TRUE]
        /\ IF currentPhone = EmptyStr
           THEN /\ errors' = [errors EXCEPT !.phone = "Phone number is required"]
                /\ ev' = NoEvent
                /\ UNCHANGED <<isPhoneValidating, blurs>>
           ELSE IF ~validatePhoneFormat(currentPhone)
           THEN /\ errors' = [errors EXCEPT !.phone =
                                 "Please enter a valid phone number format (XXX) XXX-XXXX"]
                /\ ev' = NoEvent
                /\ UNCHANGED <<isPhoneValidating, blurs>>
           ELSE IF ~isPhoneApiValidated \/ newErrors.phoneApi # ""
           THEN /\ Len(blurs) < MaxBlurs
                /\ isPhoneValidating' = TRUE
                /\ errors' = [errors EXCEPT !.phoneApi = ""]
                /\ blurs' = Append(blurs, [newErrors |-> newErrors, phone |-> currentPhone])
                /\ ev' = NoEvent
           ELSE /\ errors' = newErrors
                /\ ev' = NoEvent
                /\ UNCHANGED <<isPhoneValidating, blurs>>
        /\ UNCHANGED <<apiVars, step, formState, isSubmitting, isPhoneApiValidated, navigated, sub>>

Remove(seq, i) == SubSeq(seq, 1, i - 1) \o SubSeq(seq, i + 1, Len(seq))

\* the call of a blur validation ends: validateNumverify goes on to its end,
\* then validateForm to its setErrors(newErrors).  Nothing in the handlers
\* tests whether the form is still there: after router.push the setters
\* take effect while the page has not been replaced yet, and are dropped
\* once the form is unmounted
BlurVerifyEnd(i, net) ==
    LET b == blurs[i]
        response == VerifyResponse(b.phone, net)
        r == validateNumverifyEnd(response)
    IN  /\ blurs' = Remove(blurs, i)
        /\ formState' = Enriched(formState, r)
        /\ ev' = Verified("blur", net, response, r)
        /\ \E mounted \in IF navigated THEN BOOLEAN ELSE {TRUE} :
           IF ~mounted
           THEN UNCHANGED <<isPhoneApiValidated, isPhoneValidating, errors>>
           ELSE /\ isPhoneApiValidated' = TRUE
                /\ isPhoneValidating' = FALSE
                /\ errors' = IF r.ret THEN [b.newErrors EXCEPT !.phoneApi = ""] ELSE b.newErrors
        /\ UNCHANGED <<apiVars, step, isSubmitting, touched, navigated, sub>>

\* handleSubmit's checks without the one of the consent
LocalErrorsNoConsent(fs) ==
    [address |-> IF Trim(fs.address) = "" THEN "Address is required" ELSE "",
     phone |-> IF fs.phone = EmptyStr THEN "Phone number is required"
               ELSE IF ~validatePhoneFormat(fs.phone)
                    THEN "Invalid phone format. Please use (XXX) XXX-XXXX"
                    ELSE "",
     consent |-> ""]

\* handleSubmit's own checks of the fields: the errors to show
LocalErrors(fs) ==
    [address |-> IF Trim(fs.address) = "" THEN "Address is required" ELSE "",
     phone |-> IF fs.phone = EmptyStr THEN "Phone number is required"
               ELSE IF ~validatePhoneFormat(fs.phone)
                    THEN "Invalid phone format. Please use (XXX) XXX-XXXX"
                    ELSE "",
     consent |-> IF ~fs.consent THEN "You must consent to be contacted" ELSE ""]

basicValidationPassed(local) == local.address = "" /\ local.phone = "" /\ local.consent = ""

\* a merge that drops the errors of the field checks
MergedKeepPrev(prev, local) == prev

\* { ...prev, ...localErrors }
Merged(prev, local) ==
    [prev EXCEPT !.address = Or(local.address, @), !.phone = Or(local.phone, @),
                 !.consent = Or(local.consent, @)]

\* a submit handler that returns on a failed local check without
\* setIsSubmitting(false)
handleSubmitStuck ==
    LET local == LocalErrors(formState)
    IN  /\ step = 2 /\ ~navigated
        /\ ~SubmitDisabled
        /\ touched' = [address |-> TRUE, phone |-> TRUE, consent |-> TRUE]
        /\ isSubmitting' = TRUE
        /\ IF ~basicValidationPassed(local)
           THEN /\ errors' = Merged(errors, local)
                /\ ev' = [type |-> "submitEnd", outcome |-> "invalid", status |-> 0,
                          conversion |-> ConversionTracked, answer |-> "none", writes |-> 0]
                /\ UNCHANGED <<isPhoneValidating, sub>>
           ELSE /\ isPhoneValidating' = TRUE
                /\ errors' = [errors EXCEPT !.phoneApi = ""]
                /\ sub' = [NoSubmit EXCEPT !.pc = "verifying", !.snap = formState,
                                            !.conversion = ConversionTracked]
                /\ ev' = NoEvent
        /\ UNCHANGED <<apiVars, step, formState, isPhoneApiValidated, navigated, blurs>>

\* handleSubmit up to its return on a failed field check, or up to the await
\* of validateNumverify's call
handleSubmit ==
    LET local == LocalErrors(formState)
    IN  /\ step = 2 /\ ~navigated
        /\ ~SubmitDisabled
        /\ touched' = [address |-> TRUE, phone |-> TRUE, consent |-> TRUE]
        /\ IF ~basicValidationPassed(local)
           THEN /\ errors' = Merged(errors, local)
                /\ ev' = [type |-> "submitEnd", outcome |-> "invalid", status |-> 0,
                          conversion |-> ConversionTracked, answer |-> "none", writes |-> 0]
                /\ UNCHANGED <<isSubmitting, isPhoneValidating, sub>>
           ELSE /\ isSubmitting' = TRUE
                /\ isPhoneValidating' = TRUE
                /\ errors' = [errors EXCEPT !.phoneApi = ""]
                /\ sub' = [NoSubmit EXCEPT !.pc = "verifying", !.snap = formState,
                                            !.conversion = ConversionTracked]
                /\ ev' = NoEvent
        /\ UNCHANGED <<apiVars, step, formState, isPhoneApiValidated, navigated, blurs>>

\* the call of the submit's verification ends: validateNumverify goes on to
\* its end, then handleSubmit to its return or to the await of the call to
\* /api/submit-partial
SubmitVerifyEnd(net) ==
    LET response == VerifyResponse(sub.snap.phone, net)
        r == validateNumverifyEnd(response)
    IN  /\ sub.pc = "verifying"
        /\ isPhoneApiValidated' = TRUE
        /\ isPhoneValidating' = FALSE
        /\ formState' = Enriched(formState, r)
        /\ IF ~r.ret
           THEN /\ errors' = [errors EXCEPT !.phoneApi = Or(r.phoneApi, "Phone number validation failed.")]
                /\ isSubmitting' = FALSE
                /\ sub' = NoSubmit
                /\ ev' = Verified("submit", net, response, r)
           ELSE /\ errors' = NoErrors
                /\ sub' = [sub EXCEPT !.pc = "posting", !.isValid = response.body.isValid,
                                       !.isValidLead = response.body.isValidLead]
                /\ ev' = [Verified("submit", net, response, r) EXCEPT !.posted = TRUE]
                /\ UNCHANGED isSubmitting
        /\ UNCHANGED <<apiVars, step, touched, navigated, blurs>>

\* JSON.stringify({...formState, lastUpdated}) as the route reads it
PayloadOf(fs) ==
    [json |-> TRUE,
     data |-> [kind |-> "object",
               f |-> IF fs.leadId = ""
                     THEN [address |-> fs.address, phone |-> fs.phone, consent |-> fs.consent]
                     ELSE [address |-> fs.address, phone |-> fs.phone, consent |-> fs.consent,
                           leadId |-> fs.leadId]]]

StatusText(status) ==
    CASE status = 400 -> "400" [] status = 429 -> "429" [] status = 500 -> "500" [] OTHER -> "200"

\* a test of the answer that takes every readable 200 for a success
SubmitSucceededLax(answer, resp) == answer.kind # "clientThrow" /\ resp.status = 200

\* the answer passes response.ok, JSON.parse and result.success
SubmitSucceeded(answer, resp) ==
    answer.kind = "server" /\ resp.status = 200 /\ Has(resp.body, "success")

\* the call to /api/submit-partial ends.  answer.kind is "clientThrow" (the
\* call fails), "garbled" (the body is not JSON) or "server" (the route's
\* response, for the rate limiter's answer, the identifier and the CRM's
\* outcome of that request)
SubmitPartialEnd(answer) ==
    LET resp == PartialPOST(answer.rl, PayloadOf(sub.snap), answer.leadId, answer.outcome)
        ok == SubmitSucceeded(answer, resp)
        written == IF answer.kind = "clientThrow" THEN 0
                   ELSE Len(SelectSeq(resp.crmReqs, LAMBDA r : r.method \in {"POST", "PUT"}))
        message == CASE answer.kind = "clientThrow" -> "fetch failed"
                     [] answer.kind = "garbled" -> "Failed to parse API response: 200"
                     [] resp.status # 200 -> "Failed to parse API response: " \o StatusText(resp.status)
                     [] OTHER -> Or(Field(resp.body, "error"), "Failed to save lead data")
    IN  /\ sub.pc = "posting"
        /\ answer.kind = "server" =>
              /\ answer.outcome = "ok" \/ resp.crmReqs # <<>>
              /\ answer.leadId = "lead_1" \/ resp.status = 200
        /\ IF ok
           THEN /\ formState' = [formState EXCEPT !.leadId = resp.body.leadId]
                /\ navigated' = TRUE
                /\ ev' = [type |-> "submitEnd", outcome |-> "ok", status |-> 200,
                          conversion |-> sub.conversion, answer |-> answer.kind,
                          writes |-> written]
                /\ UNCHANGED errors
           ELSE /\ errors' = [errors EXCEPT !.submit = message]
                /\ ev' = [type |-> "submitEnd", outcome |-> "failed",
                          status |-> IF answer.kind = "server" THEN resp.status ELSE 0,
                          conversion |-> sub.conversion, answer |-> answer.kind,
                          writes |-> written]
                /\ UNCHANGED <<formState, navigated>>
        /\ isSubmitting' = FALSE
        /\ sub' = NoSubmit
        /\ UNCHANGED <<apiVars, step, touched, isPhoneValidating, isPhoneApiValidated, blurs>>

\* the user comes back to the page after the navigation: PropertyForm mounts
\* anew with its own state at the useState defaults, and reads the formState
\* the context kept; the calls of the earlier mount have all ended
ReturnToForm ==
    /\ navigated /\ blurs = <<>> /\ sub.pc = "idle"
    /\ navigated' = FALSE
    /\ step' = 1
    /\ isSubmitting' = FALSE
    /\ errors' = NoErrors
    /\ touched' = [address |-> FALSE, phone |-> FALSE, consent |-> FALSE]
    /\ isPhoneValidating' = FALSE
    /\ isPhoneApiValidated' = FALSE
    /\ ev' = NoEvent
    /\ UNCHANGED <<apiVars, formState, blurs, sub>>

AddressCandidates == {Address, ""}

PhoneInputs == {EmptyStr, <<"5", "5", "5">>, PhoneADigits, PhoneBDigits}

\* how a call to /api/validate-phone may end
VerifyOutcomes ==
    {[kind |-> "clientThrow", data |-> NoObject], [kind |-> "throw", data |-> NoObject]}
    \cup {[kind |-> "data", data |-> d] :
            d \in {[valid |-> "true", line_type |-> "mobile", carrier |-> "Carrier"],
                   [valid |-> "true", line_type |-> "voip", carrier |-> "Carrier"],
                   [valid |-> "false", line_type |-> "null", carrier |-> ""],
                   [success |-> "false", error |-> [info |-> "Invalid number"]]}}

\* how a call to /api/submit-partial may end
PartialAnswers ==
    {[kind |-> k, rl |-> rateLimit(0), leadId |-> "lead_1", outcome |-> "ok"] :
        k \in {"clientThrow", "garbled"}}
    \cup {[kind |-> "server", rl |-> rateLimit(c), leadId |-> id, outcome |-> o] :
            c \in {0, RateLimitMax}, id \in LeadIds, o \in FetchOutcomes}

FormNext ==
    \/ \E address \in AddressCandidates : handleAddressSelect(address)
    \/ \E value \in PhoneInputs : handlePhoneChange(value)
    \/ \E checked \in BOOLEAN : handleConsentChange(checked)
    \/ handleBlurConsent
    \/ handleBlurPhone
    \/ \E i \in 1..Len(blurs), net \in VerifyOutcomes : BlurVerifyEnd(i, net)
    \/ handleSubmit
    \/ \E net \in VerifyOutcomes : SubmitVerifyEnd(net)
    \/ \E answer \in PartialAnswers : SubmitPartialEnd(answer)
    \/ ReturnToForm

(***************************************************************************)
(* Specifications: the server handling requests, and the form in a browser *)
(* against a server whose credentials are configured.                      *)
(***************************************************************************)
ApiSpecInit ==
    /\ env \in EnvConfigs
    /\ rlCount = [k \in ClientKeys |-> 0]
    /\ crm = [ph \in {PhoneADigits} |-> NoContact]
    /\ last = Idle
    /\ FormInit

SpecApi == ApiSpecInit /\ [][ApiNext]_vars

FormSpecInit ==
    /\ env = [ghlKey |-> TRUE, ghlLocation |-> TRUE, numverifyKey |-> TRUE]
    /\ rlCount = [k \in ClientKeys |-> 0]
    /\ crm = [ph \in {PhoneADigits} |-> NoContact]
    /\ last = Idle
    /\ FormInit

SpecForm == FormSpecInit /\ [][FormNext]_vars

(***************************************************************************)
(* One visit of the form in which every call that is outstanding ends, by  *)
(* an answer or by a failure: fetch settles, and each handler goes on from *)
(* its await.  The inputs are one well-formed and one ill-formed phone,    *)
(* and one answer of each kind.                                            *)
(***************************************************************************)
BusyPhoneInputs == {<<"5", "5", "5">>, PhoneADigits}

BusyVerifyOutcomes ==
    {net \in VerifyOutcomes :
        \/ net.kind = "clientThrow"
        \/ net.kind = "data" /\ Has(net.data, "line_type") /\ net.data.line_type \in {"mobile", "null"}}

BusyPartialAnswers ==
    {answer \in PartialAnswers :
        \/ answer.kind = "clientThrow"
        \/ answer.kind = "server" /\ answer.rl = rateLimit(0) /\ answer.leadId = "lead_1"}

BusyNext ==
    \/ handleAddressSelect(Address)
    \/ \E value \in BusyPhoneInputs : handlePhoneChange(value)
    \/ \E checked \in BOOLEAN : handleConsentChange(checked)
    \/ handleBlurConsent
    \/ handleBlurPhone
    \/ \E i \in 1..Len(blurs), net \in BusyVerifyOutcomes : BlurVerifyEnd(i, net)
    \/ handleSubmit
    \/ \E net \in BusyVerifyOutcomes : SubmitVerifyEnd(net)
    \/ \E answer \in BusyPartialAnswers : SubmitPartialEnd(answer)

CallsReturn ==
    /\ WF_vars(\E i \in 1..Len(blurs), net \in BusyVerifyOutcomes : BlurVerifyEnd(i, net))
    /\ WF_vars(\E net \in BusyVerifyOutcomes : SubmitVerifyEnd(net))
    /\ WF_vars(\E answer \in BusyPartialAnswers : SubmitPartialEnd(answer))

SpecBusy == FormSpecInit /\ [][BusyNext]_vars /\ CallsReturn

(***************************************************************************)
(* One visit of the form followed by the complete submission of the page   *)
(* it navigates to, against a CRM that already holds the contact.          *)
(***************************************************************************)
\* the page after the form sends the complete submission
CompleteFromNextPage ==
    /\ navigated /\ sub.pc = "idle"
    /\ CompleteRequest("", [json |-> TRUE, data |-> [kind |-> "object", f |-> CompleteValid]])

SessionSpecInit ==
    /\ env = [ghlKey |-> TRUE, ghlLocation |-> TRUE, numverifyKey |-> TRUE]
    /\ rlCount = [k \in ClientKeys |-> 0]
    /\ crm = [ph \in {PhoneADigits} |-> [exists |-> TRUE, notes |-> <<"Initial">>]]
    /\ last = Idle
    /\ FormInit

SessionNext ==
    \/ \E address \in AddressCandidates : handleAddressSelect(address)
    \/ \E value \in PhoneInputs : handlePhoneChange(value)
    \/ \E checked \in BOOLEAN : handleConsentChange(checked)
    \/ handleBlurConsent
    \/ handleBlurPhone
    \/ \E i \in 1..Len(blurs), net \in VerifyOutcomes : BlurVerifyEnd(i, net)
    \/ handleSubmit
    \/ \E net \in VerifyOutcomes : SubmitVerifyEnd(net)
    \/ \E answer \in PartialAnswers : SubmitPartialEnd(answer)
    \/ CompleteFromNextPage

SpecSession == SessionSpecInit /\ [][SessionNext]_vars

(***************************************************************************)
(* formatPhoneNumber on its own: a typed string, then its formatting and   *)
(* the formatting of the result.                                           *)
(***************************************************************************)
TypedChars == {"7", "(", " ", "-"}

Typed(n) == UNION {[1..k -> TypedChars] : k \in 0..n}

DigitRun == <<"5", "5", "5", "1", "2", "3", "4", "5", "6", "7", "8", "9">>

\* e.target.value: some keys, a run of digits, and at most one more key
FormatInputs ==
    {p \o SubSeq(DigitRun, 1, k) \o q :
        p \in Typed(MaxTyped), k \in 0..Len(DigitRun), q \in Typed(1)}

FormatSpecInit ==
    /\ env = [ghlKey |-> TRUE, ghlLocation |-> TRUE, numverifyKey |-> TRUE]
    /\ rlCount = [k \in ClientKeys |-> 0]
    /\ crm = [ph \in {PhoneADigits} |-> NoContact]
    /\ last = Idle
    /\ step = 2
    /\ formState = [EmptyForm EXCEPT !.address = Address]
    /\ isSubmitting = FALSE
    /\ errors = NoErrors
    /\ touched = [address |-> TRUE, phone |-> FALSE, consent |-> FALSE]
    /\ isPhoneValidating = FALSE
    /\ isPhoneApiValidated = FALSE
    /\ navigated = FALSE
    /\ blurs = <<>>
    /\ sub = NoSubmit
    /\ \E value \in FormatInputs : ev = [type |-> "input", value |-> value]

\* the value goes through formatPhoneNumber, and the result through it again
FormatStep ==
    /\ ev.type = "input"
    /\ ev' = [type |-> "formatted", value |-> ev.value,
              out |-> formatPhoneNumber(ev.value),
              again |-> formatPhoneNumber(formatPhoneNumber(ev.value))]
    /\ UNCHANGED <<apiVars, step, formState, isSubmitting, errors, touched, isPhoneValidating,
                   isPhoneApiValidated, navigated, blurs, sub>>

SpecFormat == FormatSpecInit /\ [][FormatStep]_vars

(***************************************************************************)
(* Properties.  What a request was and what it caused is read from last;   *)
(* the display format is stated here on its own, position by position.     *)
(***************************************************************************)
DisplayPattern == <<"(", "d", "d", "d", ")", " ", "d", "d", "d", "-", "d", "d", "d", "d">>

IsDisplayFormat(str) ==
    /\ Len(str) = Len(DisplayPattern)
    /\ \A i \in 1..Len(DisplayPattern) :
          IF DisplayPattern[i] = "d" THEN str[i] \in Digits ELSE str[i] = DisplayPattern[i]

IsObject(req) == req.json /\ req.data.kind = "object"

Absent(obj, field) ==
    \/ field \notin DOMAIN obj
    \/ IF field = "phone" THEN obj[field] = <<>> ELSE obj[field] = ""

HandledBy(endpoint) == last.endpoint = endpoint

Writes(reqs) == SelectSeq(reqs, LAMBDA r : r.method \in {"POST", "PUT"})

Creates(reqs) == SelectSeq(reqs, LAMBDA r : r.method = "POST")

Updates(reqs) == SelectSeq(reqs, LAMBDA r : r.method = "PUT")

\* a payload that lacks address or phone, or whose phone is not (XXX) XXX-XXXX
PartialPayloadRejected(req) ==
    /\ IsObject(req)
    /\ \/ Absent(req.data.f, "address")
       \/ Absent(req.data.f, "phone")
       \/ ~IsDisplayFormat(req.data.f.phone)

\* C1, as stated: every request to POST /api/submit-partial whose payload
\* lacks address or phone, or carries a phone that is not (XXX) XXX-XXXX, is
\* answered 400 and sends nothing to the CRM.
C1_AsStated ==
    HandledBy("submit-partial") /\ PartialPayloadRejected(last.req)
        => last.resp.status = 400 /\ last.resp.crmReqs = <<>>

\* C1, amended: every such request that the rate limiter lets through is
\* answered 400, and no such request, let through or not, sends anything to
\* the CRM.
C1_RejectedPartialPayload ==
    HandledBy("submit-partial") /\ PartialPayloadRejected(last.req)
        => /\ last.resp.crmReqs = <<>>
           /\ ~last.limited => last.resp.status = 400
           /\ last.limited => last.resp.status = 429

C1_Witness ==
    /\ HandledBy("submit-partial") /\ ~last.limited
    /\ IsObject(last.req) /\ ~Absent(last.req.data.f, "address")
    /\ ~Absent(last.req.data.f, "phone") /\ last.req.data.f.phone = PhoneADigits
    /\ last.resp.status = 400

CompleteFieldMissing(req) ==
    IsObject(req) /\ \E i \in 1..Len(requiredFields) : Absent(req.data.f, requiredFields[i])

\* C2: every request to POST /api/submit-complete that the rate limiter
\* lets through and whose payload lacks one of address, phone, firstName,
\* lastName, email, propertyCondition, timeframe, price, leadId is answered
\* 400 and sends nothing to the CRM.
C2_MissingFieldIs400 ==
    HandledBy("submit-complete") /\ ~last.limited /\ CompleteFieldMissing(last.req)
        => last.resp.status = 400 /\ last.resp.crmReqs = <<>>

\* C3: the partial endpoint writes a contact to the CRM only for a payload
\* with a non-empty address, a phone in (XXX) XXX-XXXX and consent = true.
C3_WriteNeedsConsent ==
    HandledBy("submit-partial") /\ Writes(last.resp.crmReqs) # <<>>
        => /\ IsObject(last.req)
           /\ ~Absent(last.req.data.f, "address")
           /\ ~Absent(last.req.data.f, "phone") /\ IsDisplayFormat(last.req.data.f.phone)
           /\ "consent" \in DOMAIN last.req.data.f /\ last.req.data.f.consent = TRUE

\* C4: in both submission endpoints a request the rate limiter refuses is
\* answered 429 with a retryAfter value, and the handler neither parses nor
\* validates the payload nor calls the CRM.
C4_RateLimitedStops ==
    (HandledBy("submit-partial") \/ HandledBy("submit-complete")) /\ last.limited
        => /\ last.resp.status = 429
           /\ "retryAfter" \in DOMAIN last.resp.body /\ last.resp.body.retryAfter > 0
           /\ last.resp.steps = <<"rateLimit">>
           /\ last.resp.crmReqs = <<>>

C4_Witness ==
    /\ HandledBy("submit-partial") /\ last.limited
    /\ last.req.json /\ last.req.data.f = PartialValid
    /\ last.resp.status = 429

\* a complete submission that passed the validation and whose lookup by
\* phone was made
LookedUp ==
    /\ HandledBy("submit-complete") /\ ~last.limited
    /\ IsObject(last.req) /\ ~CompleteFieldMissing(last.req)
    /\ IsDisplayFormat(last.req.data.f.phone)
    /\ last.resp.crmReqs # <<>>

\* the lookup of the last request came back with the contact of the phone
LookupFound ==
    /\ LookedUp /\ last.out.lookup = "ok"
    /\ last.pre[StripNonDigits(last.req.data.f.phone)].exists

\* C5, as stated: a valid complete submission whose lookup returns a contact
\* issues an update (PUT) of that contact and no create (POST).
C5_AsStated ==
    LookupFound => Updates(last.resp.crmReqs) # <<>> /\ Creates(last.resp.crmReqs) = <<>>

\* C5, amended: such a submission issues no create; it issues one update of
\* that contact, unless the fetch of the contact's details fails at the
\* transport level, and then it writes nothing and is answered 500.
C5_FoundContactIsUpdated ==
    LookupFound
        => /\ Creates(last.resp.crmReqs) = <<>>
           /\ last.out.get # "throw"
                 => /\ Len(Updates(last.resp.crmReqs)) = 1
                    /\ Updates(last.resp.crmReqs)[1].phone = StripNonDigits(last.req.data.f.phone)
           /\ last.out.get = "throw"
                 => Writes(last.resp.crmReqs) = <<>> /\ last.resp.status = 500

C5_Witness ==
    /\ LookupFound /\ last.out.get = "ok" /\ last.out.write = "ok"
    /\ Updates(last.resp.crmReqs) # <<>>
    /\ last.resp.status = 200

\* C6: an update of a contact that has notes N writes N followed by the new
\* block, whatever the fetch of the contact's details came to.
C6_NotesAppended ==
    LookupFound /\ Updates(last.resp.crmReqs) # <<>>
        => LET phone == StripNonDigits(last.req.data.f.phone)
           IN  Updates(last.resp.crmReqs)[1].notes = last.pre[phone].notes \o <<"Complete">>

\* C7: a valid complete submission whose lookup finds no contact or fails
\* (a non-success response, or a transport failure) issues a create.
C7_LookupFailsOpen ==
    LookedUp /\ ~LookupFound => Creates(last.resp.crmReqs) # <<>>

\* C8: for a successful answer of the provider, the proxy's isValidLead is
\* true exactly when valid is true and line_type is mobile or landline; for
\* any other line type it is false even when valid is true.
C8_IsValidLead ==
    (/\ HandledBy("validate-phone") /\ last.provider.kind = "data"
     /\ \E i \in 1..Len(last.resp.steps) : last.resp.steps[i] = "lookup"
     /\ Field(last.provider.data, "success") # "false")
        => LET data == last.provider.data
               personal == Field(data, "line_type") \in {"mobile", "landline"}
           IN  /\ last.resp.status = 200
               /\ last.resp.body.isValidLead = "true"
                     <=> Field(data, "valid") = "true" /\ personal
               /\ Field(data, "valid") = "true" /\ ~personal
                     => last.resp.body.isValidLead = "false"

C8_Witness ==
    /\ HandledBy("validate-phone") /\ last.resp.status = 200
    /\ last.provider.data = [valid |-> "true", line_type |-> "voip", carrier |-> "Carrier"]
    /\ last.resp.body.isValid = "true"
    /\ last.resp.body.isValidLead = "false"

\* a verification has just ended whose lookup failed at the network level
LookupNetworkFailure == ev.type = "verified" /\ ev.net = "throw"

C10_PostOnlyWhenVerified ==
    /\ sub.pc = "posting"
          => /\ sub.snap.address # ""
             /\ IsDisplayFormat(sub.snap.phone)
             /\ sub.snap.consent
             /\ sub.isValid = "true" /\ sub.isValidLead = "true"
    /\ ev.type = "verified" /\ ev.caller = "submit"
          => /\ ev.posted <=> sub.pc = "posting"
             /\ ev.isValidLead # "true"
                   => ~ev.posted /\ errors.phoneApi # "" /\ sub.pc = "idle" /\ ~isSubmitting

C10_Witness ==
    /\ ev.type = "verified" /\ ev.caller = "submit" /\ ev.posted
    /\ sub.pc = "posting" /\ sub.snap.consent
    /\ sub.isValidLead = "true"

\* C11: within a form session the leadId, once assigned, never changes: no
\* later partial submission, whatever it returns, replaces it.
C11_LeadIdAssignedOnce ==
    [][formState.leadId # "" => formState'.leadId = formState.leadId]_vars

\* a submit of the form has a call outstanding
SubmitInFlight == sub.pc \in {"verifying", "posting"}

\* C12: the form navigates only in the step in which a partial submission
\* returns success and its leadId is stored; a failed or pending partial
\* submission never navigates, and a form that has navigated holds a leadId.
C12_NavigateOnlyAfterLeadId ==
    /\ [](navigated => formState.leadId \in LeadIds /\ ~SubmitInFlight)
    /\ [][~navigated /\ navigated'
             => /\ sub.pc = "posting"
                /\ ev'.type = "submitEnd" /\ ev'.outcome = "ok"
                /\ ev'.answer = "server" /\ ev'.status = 200
                /\ formState'.leadId \in LeadIds]_vars
    /\ [][ev'.type = "submitEnd" /\ ev'.outcome # "ok" => ~navigated']_vars

C12_Witness ==
    /\ navigated /\ ev.type = "submitEnd" /\ ev.outcome = "ok"
    /\ formState.leadId = "lead_2"

\* C13: while a submit has its verification or its partial submission
\* outstanding, the button is disabled, so no second submit starts: no step
\* begins a submit's verification, and none begins a call to
\* /api/submit-partial other than the submit in flight going on.
C13_NoSecondSubmit ==
    /\ [](SubmitInFlight => isSubmitting /\ SubmitDisabled)
    /\ [][SubmitInFlight /\ sub' # sub
             => \/ sub.pc = "verifying" /\ sub'.pc = "posting" /\ sub'.snap = sub.snap
                \/ sub'.pc = "idle"]_vars

C13_Witness ==
    /\ sub.pc = "posting" /\ isSubmitting /\ ~isPhoneValidating
    /\ errors = NoErrors
    /\ sub.snap.consent

\* C14: in every state of the phone/consent step the submit button is
\* disabled whenever a verification or a submission is in flight, or one of
\* the address, phone, phoneApi and consent errors is set, or a required
\* field (address, phone, consent) is missing.
C14_DisabledWhenIncomplete ==
    /\ step = 2 /\ ~navigated
    /\ \/ SubmitInFlight \/ blurs # <<>>
       \/ errors.address # "" \/ errors.phone # "" \/ errors.phoneApi # "" \/ errors.consent # ""
       \/ formState.address = "" \/ formState.phone = EmptyStr \/ ~formState.consent
    => SubmitDisabled

\* C15: a step that changes the phone clears the stored carrier and
\* phoneLineType and leaves the phone marked as not verified.
C15_EnrichmentCleared ==
    [][formState'.phone # formState.phone
          => /\ formState'.carrier = "" /\ formState'.phoneLineType = ""
             /\ ~isPhoneApiValidated']_vars

\* C16: a mount of the form starts in step 1; the step changes only from 1
\* to 2, in the step of an address selection that stores the address; no
\* blur, verification, phone or consent change or submit changes it, and it
\* never goes back from 2 to 1 while the form is mounted.
C16_StepOnlyByAddressSelect ==
    /\ step = 1
    /\ [](step \in {1, 2})
    /\ [][navigated /\ ~navigated' => step' = 1]_vars
    /\ [][step' # step /\ ~(navigated /\ ~navigated')
             => /\ step = 1 /\ step' = 2
                /\ touched'.address /\ errors'.address = ""
                /\ formState'.address \in AddressCandidates
                /\ [formState' EXCEPT !.address = formState.address] = formState
                /\ UNCHANGED <<isSubmitting, isPhoneValidating, isPhoneApiValidated, blurs, sub>>]_vars

C16_Witness ==
    /\ step = 2 /\ touched.address /\ ~touched.phone
    /\ formState.address = Address /\ formState.leadId = ""

\* the digits of a string, in order
DigitsOf(str) == SelectSeq(str, LAMBDA c : c \in Digits)

\* str is the display format cut after some position
IsDisplayPrefix(str) ==
    /\ Len(str) <= Len(DisplayPattern)
    /\ \A i \in 1..Len(str) :
          IF DisplayPattern[i] = "d" THEN str[i] \in Digits ELSE str[i] = DisplayPattern[i]

Formatted == ev.type = "formatted"

\* C17: for every input, formatPhoneNumber returns (DDD) DDD-DDDD made of the
\* first 10 digits when the input has at least 10 digits; the bare digits
\* when it has fewer than 4; and otherwise the display format cut after the
\* last digit present ('(DDD) D..' below 7 digits, '(DDD) DDD-D..' below 10).
C17_FormatShape ==
    Formatted
        => LET d == DigitsOf(ev.value)
               n == Len(d)
           IN  /\ n >= 10 => IsDisplayFormat(ev.out) /\ DigitsOf(ev.out) = SubSeq(d, 1, 10)
               /\ n < 4 => ev.out = d
               /\ n >= 4 /\ n < 10
                     => /\ IsDisplayPrefix(ev.out)
                        /\ DigitsOf(ev.out) = d
                        /\ ev.out[Len(ev.out)] \in Digits
               /\ n >= 4 /\ n < 7 => Len(ev.out) = n + 3
               /\ n >= 7 /\ n < 10 => Len(ev.out) = n + 4

C17_Witness ==
    /\ Formatted
    /\ ev.value = <<"(", "7", "-">> \o DigitRun \o <<" ">>
    /\ ev.out = <<"(", "7", "5", "5", ")", " ", "5", "1", "2", "-", "3", "4", "5", "6">>

\* C18: formatPhoneNumber is idempotent: formatting its own result returns
\* that result.
C18_FormatIdempotent == Formatted => ev.again = ev.out

C18_Witness ==
    /\ Formatted
    /\ ev.value = <<"7", " ">> \o SubSeq(DigitRun, 1, 6)
    /\ ev.out = <<"(", "7", "5", "5", ")", " ", "5", "1", "2", "-", "3">>
    /\ ev.again = ev.out

\* C19: the conversion is tracked for a submit exactly when that submit ends
\* with a successful partial submission: always for one that succeeds, never
\* for one that ends at the field checks or at a failed call.
C19_ConversionIffSuccess ==
    ev.type = "submitEnd" => (ev.conversion <=> ev.outcome = "ok")

\* the step ends a submit without success: at the field checks, at the
\* verification, or at the call to /api/submit-partial
SubmitFailsNext ==
    \/ ev'.type = "submitEnd" /\ ev'.outcome \in {"invalid", "failed"}
    \/ ev'.type = "verified" /\ ev'.caller = "submit" /\ ~ev'.ret

\* C20: the step in which a submit fails changes none of address, phone and
\* consent, stores no leadId, leaves the form in step 2 and does not
\* navigate; the submit is over and the form can be edited and resubmitted.
C20_FailedSubmitKeepsData ==
    [][SubmitFailsNext
          => /\ formState' = formState
             /\ step = 2 /\ step' = 2
             /\ ~navigated /\ ~navigated'
             /\ sub'.pc = "idle" /\ ~isSubmitting']_vars

C20_Witness ==
    /\ ev.type = "submitEnd" /\ ev.outcome = "failed" /\ ev.status = 500
    /\ formState.address = Address /\ formState.phone = PhoneA /\ formState.consent
    /\ formState.leadId = "" /\ step = 2 /\ ~navigated
    /\ errors.submit # ""

WriteRefused ==
    /\ HandledBy("submit-partial") \/ HandledBy("submit-complete")
    /\ Writes(last.resp.crmReqs) # <<>>
    /\ last.out.write = "notok"

\* C22: in both submission endpoints a CRM write answered with a non-success
\* status makes the endpoint respond 500 with an error message, and neither
\* a success flag nor a leadId.
C22_UpstreamErrorIs500 ==
    WriteRefused
        => /\ last.resp.status = 500
           /\ "error" \in DOMAIN last.resp.body /\ last.resp.body.error # ""
           /\ "success" \notin DOMAIN last.resp.body
           /\ "leadId" \notin DOMAIN last.resp.body

C22_Witness ==
    /\ WriteRefused /\ HandledBy("submit-complete")
    /\ Updates(last.resp.crmReqs) # <<>>
    /\ last.resp.status = 500
    /\ crm = last.pre

\* C23: when the verification provider's key is absent, a validate-phone
\* request with a non-empty phoneNumber is answered 500 and no request goes
\* to the external lookup.
C23_MissingKeyIs500 ==
    /\ HandledBy("validate-phone") /\ ~env.numverifyKey
    /\ "phoneNumber" \in DOMAIN last.body /\ last.body.phoneNumber # <<>>
    => /\ last.resp.status = 500
       /\ last.resp.body.error = "Server configuration error"
       /\ last.resp.crmReqs = <<>>
       /\ \A i \in 1..Len(last.resp.steps) : last.resp.steps[i] # "lookup"

C23_Witness ==
    /\ HandledBy("validate-phone") /\ ~env.numverifyKey
    /\ last.body = [phoneNumber |-> PhoneADigits]
    /\ last.resp.status = 500

\* C24: nothing is sent twice.  A submit makes one call to
\* /api/validate-phone and then at most one call to /api/submit-partial: its
\* position only moves from verifying to posting to idle, and a new
\* verification starts only in a step that is a user's event, never in the
\* step that ends a call.  One request to a submission endpoint issues at
\* most one CRM write.
C24_NoAutomaticRetry ==
    /\ [](ev.type = "submitEnd" => ev.writes <= 1)
    /\ [](HandledBy("submit-complete") => Len(Writes(last.resp.crmReqs)) <= 1)
    /\ [][sub' # sub
             => \/ sub.pc = "idle" /\ sub'.pc = "verifying" /\ ev'.type = "none"
                \/ sub.pc = "verifying" /\ sub'.pc = "posting" /\ sub'.snap = sub.snap
                \/ sub.pc \in {"verifying", "posting"} /\ sub'.pc = "idle"]_vars
    /\ [][ev'.type \in {"verified", "submitEnd"}
             => /\ Len(blurs') <= Len(blurs)
                /\ sub'.pc = "verifying" => sub' = sub
                /\ sub'.pc = "posting" /\ sub' # sub
                      => ev'.type = "verified" /\ ev'.ret /\ ev'.caller = "submit"]_vars
    /\ [][Len(blurs') > Len(blurs)
             => Len(blurs') = Len(blurs) + 1 /\ ev'.type = "none" /\ sub' = sub /\ touched'.phone]_vars

C24_Witness ==
    /\ ev.type = "submitEnd" /\ ev.outcome = "failed" /\ ev.status = 500 /\ ev.writes = 1
    /\ sub.pc = "idle" /\ blurs = <<>> /\ ~isSubmitting

\* the state of the form component
componentState == <<step, isSubmitting, errors, touched, isPhoneValidating, isPhoneApiValidated>>

\* C25: from router.push on, nothing updates the state of the form
\* component: neither what is left of the submit handler nor a response that
\* arrives later.
C25_NoUpdateAfterNavigation ==
    [][navigated' => componentState' = componentState]_vars

\* a step that issues a verification call from a blur
BlurCallIssued == Len(blurs') = Len(blurs) + 1

\* C26: a blur of the phone field marks it touched; it issues a verification
\* call only for the phone of the form, when that phone has the display
\* format and isPhoneApiValidated is false or a phoneApi error is present;
\* with an empty or ill-formed phone it issues no call and sets the phone error.
C26_BlurVerifiesOnlyWhenNeeded ==
    /\ [][handleBlurPhone =>
            /\ touched'.phone
            /\ ~IsDisplayFormat(formState.phone) =>
                  blurs' = blurs /\ errors'.phone # "" /\ isPhoneValidating' = isPhoneValidating]_vars
    /\ [][BlurCallIssued =>
            /\ touched'.phone
            /\ IsDisplayFormat(formState.phone)
            /\ ~isPhoneApiValidated \/ errors.phoneApi # ""
            /\ blurs'[Len(blurs')].phone = formState.phone]_vars

C26_Witness ==
    /\ blurs # <<>> /\ blurs[1].phone = formState.phone
    /\ touched.phone /\ ~touched.consent /\ isPhoneValidating /\ sub.pc = "idle"

\* a step of handlePhoneChange
PhoneChanged == \E value \in PhoneInputs : handlePhoneChange(value)

\* C27: once handlePhoneChange has run, isPhoneApiValidated is false and
\* errors.phoneApi is empty, touched or not; when the field was touched
\* errors.phone tells whether the new value has the display format.
C27_KeystrokeInvalidates ==
    [][PhoneChanged =>
          /\ ~isPhoneApiValidated'
          /\ errors'.phoneApi = ""
          /\ touched.phone => (errors'.phone = "" <=> IsDisplayFormat(formState'.phone))]_vars

\* the form shows its phone as verified
MarkedVerified == isPhoneApiValidated /\ errors.phoneApi = ""

\* the phone whose verification ends in this step is the one of the form
CompletedForCurrentPhone ==
    IF ev'.caller = "submit" THEN sub.snap.phone = formState'.phone
    ELSE \E i \in DOMAIN blurs : blurs' = Remove(blurs, i) /\ blurs[i].phone = formState'.phone

\* C28: the form comes to show its phone as verified, or stays so when a
\* verification ends, only by a verification that succeeded for the phone the
\* form holds then; the answer for an older phone value never does it.
C28_VerifiedMeansCurrentPhone ==
    [][~navigated /\ MarkedVerified' /\ (~MarkedVerified \/ ev'.type = "verified")
          => ev'.type = "verified" /\ ev'.ret /\ CompletedForCurrentPhone]_vars

\* a step in which a verification started by a blur ends rejected
BlurVerificationRejected ==
    ~navigated /\ ev'.type = "verified" /\ ev'.caller = "blur" /\ ~ev'.ret

\* C29: when a verification started by a blur is rejected, errors.phoneApi
\* is set and the submit button disabled once the blur handler has ended,
\* and both stay so as long as the phone is not changed.
C29_RejectedBlurKeepsError ==
    /\ [][BlurVerificationRejected => errors'.phoneApi # "" /\ SubmitDisabled']_vars
    /\ [][~navigated /\ ~navigated' /\ errors.phoneApi # "" /\ formState'.phone = formState.phone
             => errors'.phoneApi # "" /\ SubmitDisabled']_vars

\* a verification request is outstanding
VerificationOutstanding == blurs # <<>> \/ sub.pc = "verifying"

\* C30: when every outstanding call ends, the busy flags do not stay set:
\* isSubmitting is false whenever no submit handler is running and a submit
\* that runs leads to isSubmitting false; on the form that is shown
\* isPhoneValidating is false whenever no verification is outstanding, and
\* a verification that is outstanding leads to isPhoneValidating false.
C30_BusyFlagsCleared ==
    /\ [](sub.pc = "idle" => ~isSubmitting)
    /\ [](~navigated /\ ~VerificationOutstanding => ~isPhoneValidating)
    /\ isSubmitting ~> ~isSubmitting
    /\ (isPhoneValidating /\ ~navigated) ~> (~isPhoneValidating \/ navigated)

C30_Witness ==
    /\ ev.type = "submitEnd" /\ ev.outcome = "failed"
    /\ sub.pc = "idle" /\ blurs = <<>> /\ ~isSubmitting /\ ~isPhoneValidating /\ ~navigated
=============================================================================
